---- MODULE Spec2Model ----
(***************************************************************************)
(* State-machine model of the governance network simulation                *)
(* (src/governance_model.py): GovernanceModel.__init__, the phases of      *)
(* GovernanceModel.step, and GovernanceAgent.step.                         *)
(*                                                                         *)
(* Callers.  A run constructs one model and calls model.step() up to       *)
(* MaxSteps times.  Inside model.step() the scheduler activates its own    *)
(* agents, of which there are none (see Scheduled).  GovernanceAgent.step  *)
(* is a public method: between two model steps the caller may invoke it on *)
(* an agent of model.agent_set, at most MaxCalls times in a run.           *)
(*                                                                         *)
(* Numbers.  relationship_strength, link_decay_rate and forum_frequency    *)
(* are fixed-point numbers with One standing for 1.0; commitment and       *)
(* motivation_profile are percentages; resources are whole units.  A test  *)
(* "random() < p" with random() in [0, 1) may come out true iff p > 0 and  *)
(* false iff p < 1.  A uniform draw is represented by one value of its     *)
(* range (see Uniform, UniformP).                                          *)
(*                                                                         *)
(* Exceptions.  An exception that leaves __init__ or step ends the run:    *)
(* pc = "error" and err names it.                                          *)
(***************************************************************************)
EXTENDS Integers, Sequences, FiniteSets, TLC

VARIABLES
    pc,                  \* position of the caller / of GovernanceModel.step
    cfg,                 \* the constructor's arguments
    agents,              \* the GovernanceAgent objects, by unique_id
    agent_set,           \* self.agent_set (the model's own population)
    G,                   \* self.G: [node |-> id -> node data, adj |-> id -> (id -> strength)]
    successful_projects, \* self.successful_projects (the pending queue)
    steps,               \* self.schedule.steps
    model_vars,          \* datacollector: one model-level record per collect
    agent_records,       \* datacollector: one table of agent-level records per collect
    err,                 \* the exception that ended the run, "" if none
    removed,             \* history: the agent removed by the scheduled event, 0 if none
    phases,              \* history: the phases of the current step, in execution order
    activated,           \* history: per agent, its activations inside the current step
    executed,            \* history: number of queued pairs executed so far in the run
    executed_in_step,    \* history: number of queued pairs executed by the current step
    calls,               \* history: number of direct GovernanceAgent.step calls so far
    acting               \* history: the agent of the last direct GovernanceAgent.step call

vars == <<pc, cfg, agents, agent_set, G, successful_projects, steps, model_vars,
          agent_records, err, removed, phases, activated, executed,
          executed_in_step, calls, acting>>

----------------------------------------------------------------------------
(* Bounds of the model *)

MaxAgents == 3
MaxSteps == 2
MaxCalls == 2

----------------------------------------------------------------------------
(* Program constants, in model units *)

One == 1600
Half == One \div 2

BondingStrength == (7 * One) \div 10      \* 0.7, cliques
BridgingStrength == One \div 10           \* 0.1, bridging edges
NewLinkStrength == One \div 20            \* 0.05, attempt_new_collaboration
ForumStrength == One \div 10              \* 0.1, new forum edge
ForumBoost == One \div 10                 \* +0.1, existing forum edge
ProjectBoost == One \div 5                \* +0.2, executed project
ProjectStrength == (6 * One) \div 10      \* 0.6, proposal threshold on the edge
ProjectReward == 10
BridgingDraws == 3
EmuCommitment == 95

AgentType == {"GOVERNMENT", "CSO", "PRIVATE_ENTERPRISE", "ACADEMIC"}
TypeOrder == <<"GOVERNMENT", "CSO", "PRIVATE_ENTERPRISE", "ACADEMIC">>

NoAgent == 0

Min(a, b) == IF a < b THEN a ELSE b
Max(a, b) == IF a > b THEN a ELSE b

----------------------------------------------------------------------------
(* The graph self.G (networkx.Graph): node data and symmetric adjacency *)

EmptyGraph == [node |-> <<>>, adj |-> <<>>]

Nodes(g) == DOMAIN g.node

HasEdge(g, u, v) == u \in DOMAIN g.adj /\ v \in DOMAIN g.adj[u]

Neighbors(g, u) == DOMAIN g.adj[u]

Strength(g, u, v) == g.adj[u][v]

Put(f, k, x) == [y \in (DOMAIN f) \cup {k} |-> IF y = k THEN x ELSE f[y]]

Drop(f, k) == [y \in (DOMAIN f) \ {k} |-> f[y]]

\* G.add_edge(u, v, relationship_strength=s): missing end points become nodes
\* without data; an existing edge has its strength overwritten
AddEdge(g, u, v, s) ==
    LET node1 == [n \in Nodes(g) \cup {u, v} |->
                     IF n \in Nodes(g) THEN g.node[n] ELSE NoAgent]
        adj0 == [n \in DOMAIN node1 |-> IF n \in DOMAIN g.adj THEN g.adj[n] ELSE <<>>]
        adj1 == [adj0 EXCEPT ![u] = Put(@, v, s)]
    IN  [node |-> node1, adj |-> [adj1 EXCEPT ![v] = Put(@, u, s)]]

\* G[u][v]['relationship_strength'] = s on an existing edge
SetStrength(g, u, v, s) ==
    [g EXCEPT !.adj = [[@ EXCEPT ![u] = Put(@, v, s)] EXCEPT ![v] = Put(@, u, s)]]

\* RemoveNode with a fault: the neighbours keep their edge to the removed node
RemoveNodeOnly(g, n) ==
    [node |-> Drop(g.node, n), adj |-> Drop(g.adj, n)]

\* G.remove_node(n): the node and every edge incident to it
RemoveNode(g, n) ==
    [node |-> Drop(g.node, n),
     adj |-> [m \in (DOMAIN g.adj) \ {n} |-> Drop(g.adj[m], n)]]

\* the edges as unordered pairs, G.edges
Edges(g) ==
    {{p[1], p[2]} : p \in {q \in (DOMAIN g.adj) \X (DOMAIN g.adj) : HasEdge(g, q[1], q[2])}}

NumberOfEdges(g) == Cardinality(Edges(g))

Degree(g, u) ==
    Cardinality(Neighbors(g, u)) + (IF u \in Neighbors(g, u) THEN 1 ELSE 0)

RECURSIVE AddEdges(_, _, _)
\* add_edge for every pair of a set of ordered pairs (order is immaterial:
\* all carry the same strength)
AddEdges(g, pairs, s) ==
    IF pairs = {} THEN g
    ELSE LET p == CHOOSE q \in pairs : TRUE
         IN  AddEdges(AddEdge(g, p[1], p[2], s), pairs \ {p}, s)

----------------------------------------------------------------------------
(* Configurations offered to the constructor *)

\* number of agents create_agents makes for a count: range(n) is empty for n <= 0
Made(n) == Max(0, n)

Population(counts) ==
    Made(counts["GOVERNMENT"]) + Made(counts["CSO"])
        + Made(counts["PRIVATE_ENTERPRISE"]) + Made(counts["ACADEMIC"])

\* per-type counts from -1 on, for populations of at most MaxAgents agents; a
\* negative count is offered for one type at a time, beside a single agent
CountChoices ==
    {c \in [AgentType -> -1 .. MaxAgents] :
        /\ Population(c) <= MaxAgents
        /\ Cardinality({t \in AgentType : c[t] < 0}) <= 1
        /\ \A t \in AgentType : c[t] < 0 => Population(c) = 1}

DecayChoices == {0, Half, One + Half}
ForumChoices == {0, Half}
ThresholdChoices == {60}
\* midpoint_removal_step: 0 stands for None (both are falsy in line 206)
RemovalChoices == 0 .. MaxSteps

\* a keyword argument the call does not pass
NotPassed == -1

\* the seed the scenario runner starts from (run_simulations.py: FIXED_SEED)
FixedSeed == 42

\* the keyword arguments the scenario runner passes beside the parameters of
\* line 68: resource_node_introduction_step (run_simulations.py, line 155) and
\* seed (run_simulations.py, lines 72, 115 and 157)
IntroductionChoices == {NotPassed} \cup (1 .. MaxSteps)
SeedChoices == {NotPassed, FixedSeed}

Configs ==
    [num_agents_per_type : CountChoices,
     link_decay_rate : DecayChoices,
     forum_frequency : ForumChoices,
     project_resource_threshold : ThresholdChoices,
     midpoint_removal_step : RemovalChoices,
     resource_node_introduction_step : IntroductionChoices,
     seed : SeedChoices]

NoConfig ==
    [num_agents_per_type |-> [t \in AgentType |-> 0],
     link_decay_rate |-> 0,
     forum_frequency |-> 0,
     project_resource_threshold |-> 0,
     midpoint_removal_step |-> 0,
     resource_node_introduction_step |-> NotPassed,
     seed |-> NotPassed]

\* the call passes a keyword that is not a parameter of __init__ (line 68 has
\* neither resource_node_introduction_step nor seed, and no **kwargs)
UnexpectedKeyword(c) ==
    c.resource_node_introduction_step # NotPassed \/ c.seed # NotPassed

----------------------------------------------------------------------------
(* create_agents *)

Rep(t, n) == [i \in 1 .. Made(n) |-> t]

\* the agent types in order of creation; unique_id is the position (1, 2, ...)
TypeSeq(counts) ==
    Rep("GOVERNMENT", counts["GOVERNMENT"]) \o Rep("CSO", counts["CSO"])
        \o Rep("PRIVATE_ENTERPRISE", counts["PRIVATE_ENTERPRISE"])
        \o Rep("ACADEMIC", counts["ACADEMIC"])

\* random.uniform(lo, hi) for resources: the upper end stands for the draw
Uniform(lo, hi) == {hi}

\* random.uniform(lo, hi) for a probability: every value strictly between 0 and
\* 100 behaves alike in the tests random() < p, so the lower end stands for it
UniformP(lo, hi) == {lo}

ResourcesDraw(t) ==
    IF t = "CSO" THEN Uniform(10, 30)
    ELSE IF t = "PRIVATE_ENTERPRISE" THEN Uniform(50, 100)
    ELSE Uniform(10, 50)

CommitmentDraw(t) ==
    IF t = "CSO" THEN UniformP(70, 90)
    ELSE IF t = "GOVERNMENT" THEN UniformP(20, 50)
    ELSE IF t = "ACADEMIC" THEN UniformP(80, 100)
    ELSE UniformP(20, 80)

MotivationDraw(t) ==
    IF t = "CSO" THEN UniformP(80, 90)
    ELSE IF t = "PRIVATE_ENTERPRISE" THEN UniformP(10, 30)
    ELSE UniformP(20, 80)

\* random.choice over the agents of a type, when there are any
RoleChoices(types, t) ==
    LET of == {i \in 1 .. Len(types) : types[i] = t}
    IN  IF of = {} THEN {NoAgent} ELSE of

NewAgent(t, r, c, m, emu, catalyst) ==
    [agent_type |-> t, resources |-> r, commitment |-> IF emu THEN EmuCommitment ELSE c,
     motivation_profile |-> m, is_emu |-> emu, is_catalyst |-> catalyst]

----------------------------------------------------------------------------
(* initialize_network *)

\* the pairs the clique loops visit: same type, i < j
CliquePairs(types) ==
    {p \in (1 .. Len(types)) \X (1 .. Len(types)) :
        p[1] < p[2] /\ types[p[1]] = types[p[2]]}

\* BridgePairs with a fault: the type test of line 160 is dropped
BridgePairsAnyType(types) == (1 .. Len(types)) \X (1 .. Len(types))

\* the pairs (agent1, agent2) a bridging draw turns into an edge
BridgePairs(types) ==
    {p \in (1 .. Len(types)) \X (1 .. Len(types)) : types[p[1]] # types[p[2]]}

\* the graph after create_agents: one node per agent, holding the agent
NodesOnly(n) == [node |-> [i \in 1 .. n |-> i], adj |-> [i \in 1 .. n |-> <<>>]]

\* BridgingDraws draws, each adding the drawn pair when it is a bridge pair;
\* a draw of two agents of one type adds nothing, so any set of at most
\* BridgingDraws bridge pairs can result
InitialNetwork(types, bridges) ==
    AddEdges(AddEdges(NodesOnly(Len(types)), CliquePairs(types), BondingStrength),
             bridges, BridgingStrength)

----------------------------------------------------------------------------
(* GovernanceModel.__init__ *)

Init ==
    /\ pc = "new"
    /\ cfg = NoConfig
    /\ agents = <<>>
    /\ agent_set = {}
    /\ G = EmptyGraph
    /\ successful_projects = <<>>
    /\ steps = 0
    /\ model_vars = <<>>
    /\ agent_records = <<>>
    /\ err = ""
    /\ removed = NoAgent
    /\ phases = <<>>
    /\ activated = <<>>
    /\ executed = 0
    /\ executed_in_step = 0
    /\ calls = 0
    /\ acting = NoAgent

\* an exception leaves __init__ or step: the run ends there
Raise(e) ==
    /\ pc' = "error"
    /\ err' = e

Construct ==
    /\ pc = "new"
    /\ \E c \in Configs :
         LET types == TypeSeq(c.num_agents_per_type)
             n == Len(types)
         IN  /\ cfg' = c
             /\ IF UnexpectedKeyword(c)
                  THEN \* the call cannot be bound to the signature of line 68
                       /\ Raise("TypeError")
                       /\ UNCHANGED <<agents, agent_set, G, activated>>
                  ELSE IF n = 0
                  THEN \* initialize_network: random.choice on the empty agent_set
                       /\ Raise("IndexError")
                       /\ UNCHANGED <<agents, agent_set, G, activated>>
                  ELSE /\ \E emu \in RoleChoices(types, "GOVERNMENT") :
                          \E catalyst \in RoleChoices(types, "ACADEMIC") :
                          \E res \in [1 .. n -> UNION {ResourcesDraw(t) : t \in AgentType}] :
                             /\ \A i \in 1 .. n : res[i] \in ResourcesDraw(types[i])
                             /\ agents' =
                                  [i \in 1 .. n |->
                                     NewAgent(types[i], res[i],
                                              CHOOSE x \in CommitmentDraw(types[i]) : TRUE,
                                              CHOOSE x \in MotivationDraw(types[i]) : TRUE,
                                              i = emu, i = catalyst)]
                       /\ agent_set' = 1 .. n
                       /\ \E bridges \in SUBSET BridgePairs(types) :
                             /\ Cardinality(bridges) <= BridgingDraws
                             /\ G' = InitialNetwork(types, bridges)
                       /\ activated' = [i \in 1 .. n |-> 0]
                       /\ pc' = "ready"
                       /\ UNCHANGED err
    /\ UNCHANGED <<successful_projects, steps, model_vars, agent_records, removed,
                   phases, executed, executed_in_step, calls, acting>>

----------------------------------------------------------------------------
(* Random tests *)

\* Draw with a fault: the test is "random() <= p / scale", which can pass at p = 0
DrawInclusive(p, scale) == {b \in BOOLEAN : (b => p >= 0) /\ (~b => p < scale)}

\* the outcomes of "random() < p / scale" with random() in [0, 1)
Draw(p, scale) == {b \in BOOLEAN : (b => p > 0) /\ (~b => p < scale)}

----------------------------------------------------------------------------
(* GovernanceModel.step, line 204: self.schedule.step() *)

\* the agents of the scheduler: RandomActivation(self) starts empty and no
\* agent is ever added to it (agents go to self.agent_set only, line 126)
Scheduled == {}

\* RandomActivation.step: activate the scheduler's agents in shuffled order,
\* then advance the counter
ScheduleStep ==
    /\ pc = "ready"
    /\ steps < MaxSteps
    /\ activated' = [a \in DOMAIN agents |-> IF a \in Scheduled THEN 1 ELSE 0]
    /\ steps' = steps + 1
    /\ phases' = <<"agents", "counter">>
    /\ executed_in_step' = 0
    /\ pc' = "events"
    /\ UNCHANGED <<cfg, agents, agent_set, G, successful_projects, model_vars,
                   agent_records, err, removed, executed, calls, acting>>

----------------------------------------------------------------------------
(* GovernanceModel.step, lines 206-211: the scheduled removal *)

\* the first element of a set of agents in the order of agent_set, None if empty
First(of) == IF of = {} THEN NoAgent ELSE CHOOSE a \in of : \A b \in of : a <= b

\* next((a for a in self.agent_set if hasattr(a, "is_emu")), None)
EmuAgent == First({a \in agent_set : agents[a].is_emu})

\* CatalystAgent with a fault: without a catalyst the first agent of the
\* population convenes the forum
CatalystOrFirst ==
    IF \E a \in agent_set : agents[a].is_catalyst
      THEN First({a \in agent_set : agents[a].is_catalyst})
      ELSE First(agent_set)

\* next((a for a in self.agent_set if hasattr(a, "is_catalyst")), None)
CatalystAgent == First({a \in agent_set : agents[a].is_catalyst})

\* self.midpoint_removal_step and self.schedule.steps == self.midpoint_removal_step
RemovalDue == cfg.midpoint_removal_step # 0 /\ steps = cfg.midpoint_removal_step

ScheduledEvents ==
    /\ pc = "events"
    /\ LET emu_agent == EmuAgent
       IN  IF RemovalDue /\ emu_agent # NoAgent
             THEN /\ agent_set' = agent_set \ {emu_agent}
                  /\ G' = RemoveNode(G, emu_agent)
                  /\ removed' = emu_agent
             ELSE UNCHANGED <<agent_set, G, removed>>
    /\ phases' = Append(phases, "events")
    /\ pc' = "forum"
    /\ UNCHANGED <<cfg, agents, successful_projects, steps, model_vars, agent_records,
                   err, activated, executed, executed_in_step, calls, acting>>

----------------------------------------------------------------------------
(* trigger_forum_event *)

\* ForumRaise with a fault: the pair loops visit (i, j) and (j, i), so an
\* existing edge is raised twice
ForumRaiseBothOrders(s) == Min(One, s + 2 * ForumBoost)

\* min(1.0, strength + 0.1)
ForumRaise(s) == Min(One, s + ForumBoost)

\* the sets of agents that can attend beside the catalyst: each other agent of
\* the population attends iff random() < commitment
Attendances(catalyst) ==
    {S \in SUBSET (agent_set \ {catalyst}) :
        \A a \in agent_set \ {catalyst} :
            (a \in S) \in Draw(agents[a].commitment, 100)}

\* lines 174-180 for the attendees: every unordered pair once
Forum(g, attendees) ==
    [g EXCEPT !.adj =
        [u \in DOMAIN g.adj |->
            IF u \notin attendees THEN g.adj[u]
            ELSE [v \in (DOMAIN g.adj[u]) \cup (attendees \ {u}) |->
                    IF v \notin attendees \/ v = u THEN g.adj[u][v]
                    ELSE IF HasEdge(g, u, v) THEN ForumRaise(g.adj[u][v])
                    ELSE ForumStrength]]]

TriggerForumEvent ==
    /\ pc = "forum"
    /\ \E convened \in Draw(cfg.forum_frequency, One) :
         LET catalyst == CatalystAgent
         IN  IF convened /\ catalyst # NoAgent
               THEN \E S \in Attendances(catalyst) : G' = Forum(G, S \cup {catalyst})
               ELSE UNCHANGED G
    /\ phases' = Append(phases, "forum")
    /\ pc' = "decay"
    /\ UNCHANGED <<cfg, agents, agent_set, successful_projects, steps, model_vars,
                   agent_records, err, removed, activated, executed, executed_in_step,
                   calls, acting>>

----------------------------------------------------------------------------
(* link_decay *)

\* Decayed with a fault: the factor is link_decay_rate instead of 1 - link_decay_rate
DecayedByRate(s, rate) == (s * rate) \div One

\* Decayed with a fault: the factor is applied twice, as when the loop meets
\* an edge as (u, v) and as (v, u)
DecayedTwice(s, rate) == (((s * (One - rate)) \div One) * (One - rate)) \div One

\* strength * (1 - link_decay_rate)
Decayed(s, rate) == (s * (One - rate)) \div One

\* LinkDecay with a fault: an edge whose decayed strength is not positive is
\* dropped from the graph
LinkDecayPruning ==
    /\ pc = "decay"
    /\ G' = [G EXCEPT !.adj =
                [u \in DOMAIN G.adj |->
                    [v \in {w \in DOMAIN G.adj[u] :
                                Decayed(G.adj[u][w], cfg.link_decay_rate) > 0} |->
                        Decayed(G.adj[u][v], cfg.link_decay_rate)]]]
    /\ phases' = Append(phases, "decay")
    /\ pc' = "execute"
    /\ UNCHANGED <<cfg, agents, agent_set, successful_projects, steps, model_vars,
                   agent_records, err, removed, activated, executed, executed_in_step,
                   calls, acting>>

LinkDecay ==
    /\ pc = "decay"
    /\ G' = [G EXCEPT !.adj =
                [u \in DOMAIN G.adj |->
                    [v \in DOMAIN G.adj[u] |-> Decayed(G.adj[u][v], cfg.link_decay_rate)]]]
    /\ phases' = Append(phases, "decay")
    /\ pc' = "execute"
    /\ UNCHANGED <<cfg, agents, agent_set, successful_projects, steps, model_vars,
                   agent_records, err, removed, activated, executed, executed_in_step,
                   calls, acting>>

----------------------------------------------------------------------------
(* execute_joint_projects *)

\* ProjectRaise with a fault: the clamp at 1.0 is missing
ProjectRaiseUnclamped(s) == s + ProjectBoost

\* min(1.0, strength + 0.2)
ProjectRaise(s) == Min(One, s + ProjectBoost)

\* self.G.nodes[u]['agent'] raises KeyError for a missing node and for a node
\* without data
NodeAgentFails(g, u) == u \notin Nodes(g) \/ g.node[u] = NoAgent

RECURSIVE ExecuteFrom(_, _, _, _)
\* the loop of lines 189-197 over the queue q, from agents ag and graph g, with
\* n pairs done: the state when the loop ends or a lookup raises
ExecuteFrom(q, ag, g, n) ==
    IF q = <<>> THEN [agents |-> ag, G |-> g, done |-> n, raised |-> FALSE]
    ELSE LET u == Head(q)[1]
             v == Head(q)[2]
         IN  IF NodeAgentFails(g, u) \/ NodeAgentFails(g, v)
               THEN [agents |-> ag, G |-> g, done |-> n, raised |-> TRUE]
               ELSE LET au == g.node[u]
                        av == g.node[v]
                        ag1 == [ag EXCEPT ![au].resources = @ + ProjectReward]
                        ag2 == [ag1 EXCEPT ![av].resources = @ + ProjectReward]
                        g1 == IF HasEdge(g, u, v)
                                THEN SetStrength(g, u, v, ProjectRaise(Strength(g, u, v)))
                                ELSE g
                    IN  ExecuteFrom(Tail(q), ag2, g1, n + 1)

ExecuteJointProjects ==
    /\ pc = "execute"
    /\ LET r == ExecuteFrom(successful_projects, agents, G, 0)
       IN  /\ agents' = r.agents
           /\ G' = r.G
           /\ executed' = executed + r.done
           /\ executed_in_step' = r.done
           /\ IF r.raised
                THEN /\ Raise("KeyError")
                     /\ UNCHANGED <<successful_projects, phases>>
                ELSE /\ successful_projects' = <<>>
                     /\ phases' = Append(phases, "execute")
                     /\ pc' = "collect"
                     /\ UNCHANGED err
    /\ UNCHANGED <<cfg, agent_set, steps, model_vars, agent_records, removed,
                   activated, calls, acting>>

----------------------------------------------------------------------------
(* datacollector.collect: the reporters of lines 90-101 *)

\* nx.density: 0 for fewer than two nodes or no edge, else 2m / (n (n - 1)), as
\* the pair <<numerator, denominator>>
Density(g) ==
    LET n == Cardinality(Nodes(g))
        m == NumberOfEdges(g)
    IN  IF m = 0 \/ n <= 1 THEN <<0, 1>> ELSE <<2 * m, n * (n - 1)>>

\* neighbours other than the node itself
Others(g, u) == Neighbors(g, u) \ {u}

\* 60 * nx.clustering of one node: 2 T / (d (d - 1)), 0 for d < 2
Clustering60(g, u) ==
    LET d == Cardinality(Others(g, u))
        T == Cardinality({e \in Edges(g) : Cardinality(e) = 2 /\ e \subseteq Others(g, u)})
    IN  IF d < 2 THEN 0 ELSE (120 * T) \div (d * (d - 1))

RECURSIVE SumClustering60(_, _)
SumClustering60(g, S) ==
    IF S = {} THEN 0
    ELSE LET u == CHOOSE x \in S : TRUE
         IN  Clustering60(g, u) + SumClustering60(g, S \ {u})

\* nx.average_clustering: sum(c) / len(c), which divides by zero on the empty graph
AverageClusteringFails(g) == Nodes(g) = {}

AverageClustering(g) == <<SumClustering60(g, Nodes(g)), 60 * Cardinality(Nodes(g))>>

RECURSIVE Component(_, _)
\* the connected component that holds the nodes S
Component(g, S) ==
    LET T == S \cup UNION {Neighbors(g, u) : u \in S}
    IN  IF T = S THEN S ELSE Component(g, T)

\* len(max(nx.connected_components(G), key=len)) if G.nodes else 0
LargestComponent(g) ==
    IF Nodes(g) = {} THEN 0
    ELSE LET sizes == {Cardinality(Component(g, {u})) : u \in Nodes(g)}
         IN  CHOOSE k \in sizes : \A j \in sizes : j <= k

\* the agents the collector reports on: every agent registered with the model
\* by mesa.Agent.__init__, which removal from self.agent_set does not undo (the
\* degree reporter of line 101 allows for an agent that is not in the graph)
Registered == DOMAIN agents

ModelRecord ==
    [density |-> Density(G),
     clustering |-> AverageClustering(G),
     edges |-> NumberOfEdges(G),
     projects |-> Len(successful_projects),
     component |-> LargestComponent(G)]

AgentRecord(a) ==
    [agent_type |-> agents[a].agent_type,
     resources |-> agents[a].resources,
     commitment |-> agents[a].commitment,
     degree |-> IF a \in Nodes(G) THEN Degree(G, a) ELSE 0]

Collect ==
    /\ pc = "collect"
    /\ IF AverageClusteringFails(G)
         THEN /\ Raise("ZeroDivisionError")
              /\ UNCHANGED <<model_vars, agent_records, phases>>
         ELSE /\ model_vars' = Append(model_vars, ModelRecord)
              /\ agent_records' = Append(agent_records, [a \in Registered |-> AgentRecord(a)])
              /\ phases' = Append(phases, "metrics")
              /\ pc' = "ready"
              /\ UNCHANGED err
    /\ UNCHANGED <<cfg, agents, agent_set, G, successful_projects, steps, removed,
                   activated, executed, executed_in_step, calls, acting>>

----------------------------------------------------------------------------
(* GovernanceAgent.step, called on an agent of the population *)

\* 10000 * prob of lines 44-49
AcceptanceProb(self, partner) ==
    LET homophily_score == IF self.agent_type = partner.agent_type THEN 1 ELSE 0
        resource_seeking_score == Max(0, partner.resources - self.resources)
    IN  self.motivation_profile * homophily_score * 100
            + (100 - self.motivation_profile) * resource_seeking_score

\* PossiblePartners with a fault: the has_edge test of line 38 is missing
PossiblePartnersAny(a, g) == {b \in agent_set : b # a}

\* lines 35-39
PossiblePartners(a, g) == {b \in agent_set : b # a /\ ~HasEdge(g, a, b)}

\* whether attempt_new_collaboration can leave the graph as it is: the first
\* test fails, nobody is left to pair with, or the second test can fail
AttemptMayPass(a, g) ==
    \/ FALSE \in Draw(agents[a].commitment, 100)
    \/ PossiblePartners(a, g) = {}
    \/ \E b \in PossiblePartners(a, g) :
          FALSE \in Draw(AcceptanceProb(agents[a], agents[b]), 10000)

\* the graphs attempt_new_collaboration of agent a can leave
AttemptOutcomes(a, g) ==
    (IF AttemptMayPass(a, g) THEN {g} ELSE {}) \cup
    {AddEdge(g, a, partner, NewLinkStrength) :
        partner \in {b \in PossiblePartners(a, g) :
                        /\ TRUE \in Draw(agents[a].commitment, 100)
                        /\ TRUE \in Draw(AcceptanceProb(agents[a], agents[b]), 10000)}}

\* Qualifies with a fault: the resource test is >= instead of >
QualifiesAtThreshold(a, partner, g) ==
    /\ Strength(g, a, partner) > ProjectStrength
    /\ agents[a].resources + agents[g.node[partner]].resources
          >= cfg.project_resource_threshold

\* lines 60-61
Qualifies(a, partner, g) ==
    /\ Strength(g, a, partner) > ProjectStrength
    /\ agents[a].resources + agents[g.node[partner]].resources
          > cfg.project_resource_threshold

\* whether propose_joint_project can append nothing: the test fails, there is
\* no neighbour, or some neighbour does not qualify
ProposeMayPass(a, g) ==
    \/ FALSE \in Draw(agents[a].commitment, 100)
    \/ Neighbors(g, a) = {}
    \/ \E b \in Neighbors(g, a) : ~Qualifies(a, b, g)

\* what propose_joint_project of agent a can append to the queue
ProposeOutcomes(a, g) ==
    (IF ProposeMayPass(a, g) THEN {<<>>} ELSE {}) \cup
    {<<<<a, partner>>>> :
        partner \in {b \in Neighbors(g, a) :
                        /\ TRUE \in Draw(agents[a].commitment, 100)
                        /\ Qualifies(a, b, g)}}

\* attempt_new_collaboration, then propose_joint_project
AgentStep(a) ==
    /\ pc = "ready"
    /\ calls < MaxCalls
    /\ \E g \in AttemptOutcomes(a, G) :
         /\ G' = g
         /\ \E q \in ProposeOutcomes(a, g) :
               successful_projects' = successful_projects \o q
    /\ calls' = calls + 1
    /\ acting' = a
    /\ UNCHANGED <<pc, cfg, agents, agent_set, steps, model_vars, agent_records, err,
                   removed, phases, activated, executed, executed_in_step>>

AgentSteps == \E a \in agent_set : AgentStep(a)

Next ==
    \/ Construct
    \/ ScheduleStep
    \/ ScheduledEvents
    \/ TriggerForumEvent
    \/ LinkDecay
    \/ ExecuteJointProjects
    \/ Collect
    \/ AgentSteps

Spec == Init /\ [][Next]_vars

----------------------------------------------------------------------------
(* Properties *)

Last(q) == q[Len(q)]

AllStrengths(g) == UNION {{g.adj[u][v] : v \in DOMAIN g.adj[u]} : u \in DOMAIN g.adj}

\* C1: with link_decay_rate in [0, 1], after construction and after every phase
\* of every step every edge has relationship_strength in [0, 1]
C1_StrengthInUnitInterval ==
    cfg.link_decay_rate \in 0 .. One =>
        \A s \in AllStrengths(G) : 0 <= s /\ s <= One

\* C1 witness: an executed project has raised an edge to the clamp value 1.0
\* under a valid decay rate
C1_Witness ==
    /\ cfg.link_decay_rate \in 0 .. One
    /\ pc = "collect"
    /\ executed_in_step >= 2
    /\ One \in AllStrengths(G)

\* C2: the graph has no self-loop, and an edge (u, v) is present iff (v, u) is
\* present with the same relationship_strength (one edge per unordered pair)
C2_SimpleSymmetricGraph ==
    /\ DOMAIN G.adj = Nodes(G)
    /\ \A u \in Nodes(G) :
          /\ ~HasEdge(G, u, u)
          /\ \A v \in Neighbors(G, u) :
                HasEdge(G, v, u) /\ Strength(G, v, u) = Strength(G, u, v)

\* C2 witness: the graph holds a clique edge next to an edge made by the forum
\* or a bridging draw and an edge made by attempt_new_collaboration
C2_Witness ==
    /\ pc = "ready"
    /\ steps > 0
    /\ calls > 0
    /\ NewLinkStrength \in AllStrengths(G)
    /\ \E s \in AllStrengths(G) : s > ProjectStrength
    /\ Cardinality(Edges(G)) >= 3

\* C3 (as claimed): the phases of a completed step are, in order: counter,
\* scheduled events, forum, decay, agent activation, project execution, metrics
C3_ClaimedStepOrder ==
    (pc = "ready" /\ steps > 0) =>
        phases = <<"counter", "events", "forum", "decay", "agents", "execute", "metrics">>

\* C4 (as claimed): in every completed step every live agent has run its
\* per-step behaviour exactly once
C4_EveryAgentActivatedOnce ==
    (pc = "ready" /\ steps > 0) => \A a \in agent_set : activated[a] = 1

\* C5 (as claimed): the Successful Projects value of a step's snapshot is the
\* number of joint projects executed up to and including that step
C5_RecordedProjectsCumulative ==
    (pc = "ready" /\ steps > 0) => Last(model_vars).projects = executed

\* C6: the removal of the broker takes exactly its node and its incident edges
\* out of the graph and the broker out of the population, and leaves every
\* agent's attributes and every edge between two other agents as they were
C6_RemovalFrame ==
    [][(pc = "events" /\ RemovalDue /\ EmuAgent # NoAgent) =>
          LET b == EmuAgent
          IN  /\ agents[b].is_emu
              /\ agent_set' = agent_set \ {b}
              /\ Cardinality(agent_set') = Cardinality(agent_set) - 1
              /\ Nodes(G') = Nodes(G) \ {b}
              /\ DOMAIN G'.adj = Nodes(G')
              /\ \A u \in Nodes(G') :
                    /\ G'.node[u] = G.node[u]
                    /\ Neighbors(G', u) = Neighbors(G, u) \ {b}
                    /\ \A v \in Neighbors(G', u) : Strength(G', u, v) = Strength(G, u, v)
              /\ agents' = agents]_vars

\* C6 witness: the broker, which had edges at the last snapshot, has been
\* removed, and two other agents still share an edge
C6_Witness ==
    /\ pc = "forum"
    /\ removed # NoAgent
    /\ agent_records # <<>>
    /\ Last(agent_records)[removed].degree > 0
    /\ Edges(G) # {}

\* the number of agents in the i-th snapshot's agent-level records
Recorded(i) == Cardinality(DOMAIN agent_records[i])

\* C7 (as claimed): with removal step k and a broker present, the population
\* recorded in the snapshot of step k is one smaller than in the snapshot of
\* step k - 1, and equal between every other pair of consecutive snapshots
C7_RecordedPopulationDrops ==
    \A i \in 2 .. Len(agent_records) :
        Recorded(i) =
            Recorded(i - 1) - (IF i = cfg.midpoint_removal_step /\ removed # NoAgent
                                 THEN 1 ELSE 0)

\* C8 (as claimed): when a queued pair names the broker and the broker is
\* removed before the queue is executed, the execution does not fail, the step
\* completes and the queue is cleared
C8_ExecutionSurvivesRemoval ==
    /\ err # "KeyError"
    /\ (removed # NoAgent /\ pc \in {"collect", "ready"}) =>
          \A i \in 1 .. Len(successful_projects) :
              removed \notin {successful_projects[i][1], successful_projects[i][2]}

ValidConfig(c) ==
    /\ \A t \in AgentType : c.num_agents_per_type[t] >= 0
    /\ c.link_decay_rate \in 0 .. One
    /\ c.forum_frequency \in 0 .. One

\* C9 (as claimed): construction fails with ConfigurationError, creating no
\* model state, exactly for the configurations with a negative count or a
\* probability outside [0, 1], and succeeds for all others
C9_ConfigurationValidated ==
    (pc # "new" /\ steps = 0 /\ calls = 0 /\ ~UnexpectedKeyword(cfg)) =>
        IF ValidConfig(cfg)
          THEN pc = "ready" /\ err = ""
          ELSE pc = "error" /\ err = "ConfigurationError" /\ agents = <<>>

\* C10 (as claimed): a model with zero agents is constructed and stepped
\* without error, each snapshot recording density 0, clustering 0, edge count 0
\* and largest component 0
C10_EmptyModelSteps ==
    (pc # "new" /\ Population(cfg.num_agents_per_type) = 0
        /\ ~UnexpectedKeyword(cfg)) =>
        /\ err = ""
        /\ \A i \in 1 .. Len(model_vars) :
              /\ model_vars[i].density[1] = 0
              /\ model_vars[i].clustering[1] = 0
              /\ model_vars[i].edges = 0
              /\ model_vars[i].component = 0

\* C11 (as claimed): a model configured with resource-node introduction at step
\* k is constructed and stepped, and the population recorded in the snapshot
\* of step k is one larger than in the snapshot of step k - 1 (the resource
\* node, which joins the population and the graph in step k and in no other)
C11_ResourceNodeIntroduced ==
    (pc # "new" /\ cfg.resource_node_introduction_step # NotPassed
        /\ cfg.seed = NotPassed /\ ValidConfig(cfg)
        /\ Population(cfg.num_agents_per_type) > 0) =>
        LET k == cfg.resource_node_introduction_step
        IN  /\ err # "TypeError"
            /\ \A i \in 2 .. Len(agent_records) :
                  Recorded(i) = Recorded(i - 1) + (IF i = k THEN 1 ELSE 0)

\* the edges of g2 that g1 does not have
NewEdges(g1, g2) == Edges(g2) \ Edges(g1)

\* C12: with forum_frequency = 0 the forum phase of every step leaves the
\* graph as it is, and every edge that appears after construction is made by
\* an agent's attempt_new_collaboration (between two model steps, one edge at
\* the agent, of strength 0.05)
C12_NoForumWithoutFrequency ==
    [][(pc # "new" /\ cfg.forum_frequency = 0) =>
          /\ pc = "forum" => G' = G
          /\ NewEdges(G, G') # {} =>
                /\ pc = "ready" /\ calls' = calls + 1
                /\ Cardinality(NewEdges(G, G')) = 1
                /\ \A e \in NewEdges(G, G') :
                      \E u \in e : \E v \in e \ {u} :
                         Strength(G', u, v) = NewLinkStrength]_vars

\* C12 witness: with forum_frequency = 0, a catalyst and a committed agent to
\* attend, the forum phase of a step is over and the graph holds an edge made
\* by attempt_new_collaboration
C12_Witness ==
    /\ cfg.forum_frequency = 0
    /\ pc = "decay"
    /\ CatalystAgent # NoAgent
    /\ Cardinality(agent_set) >= 2
    /\ NewLinkStrength \in AllStrengths(G)

\* the strengths k executed projects can leave on an edge of strength s
ProjectRaises(s, k) == {Min(One, s + j * ProjectBoost) : j \in 1 .. k}

\* C13: with link_decay_rate = 0 the decay phase leaves every strength as it
\* is, and in every transition of a run the strength of an edge that stays in
\* the graph does not decrease: it changes only in the forum phase, to
\* min(1.0, old + 0.1), and in the execution phase, by +0.2 per executed
\* project on the edge, up to 1.0
C13_NoDecayAtRateZero ==
    [][(pc # "new" /\ cfg.link_decay_rate = 0) =>
          /\ pc = "decay" => G' = G
          /\ \A u \in Nodes(G) : \A v \in Neighbors(G, u) :
                HasEdge(G', u, v) =>
                   LET old == Strength(G, u, v)
                       new == Strength(G', u, v)
                   IN  /\ new >= old
                       /\ new # old =>
                            \/ pc = "forum" /\ new = Min(One, old + ForumBoost)
                            \/ /\ pc = "execute"
                               /\ new \in ProjectRaises(old, Len(successful_projects))]_vars

\* C13 witness: at rate 0, after the decay phase of the second step, the graph
\* holds a clique edge raised by one project and an edge raised by the forum
C13_Witness ==
    /\ cfg.link_decay_rate = 0
    /\ pc = "collect"
    /\ steps = 2
    /\ BondingStrength + ProjectBoost \in AllStrengths(G)
    /\ ForumStrength + ForumBoost \in AllStrengths(G)

\* C14: when no Academic agent was created (so the population has no
\* catalyst), the forum phase of every step leaves the graph and every agent
\* as they are, whatever the forum draw
C14_NoCatalystNoForum ==
    [][(pc = "forum" /\ Made(cfg.num_agents_per_type["ACADEMIC"]) = 0) =>
          /\ \A a \in agent_set : ~agents[a].is_catalyst
          /\ G' = G
          /\ agents' = agents]_vars

\* C14 witness: a forum phase is over in a model without Academic agents whose
\* forum draw can pass and that has two agents without an edge, both of which
\* would attend with positive probability
C14_Witness ==
    /\ pc = "decay"
    /\ Made(cfg.num_agents_per_type["ACADEMIC"]) = 0
    /\ cfg.forum_frequency > 0
    /\ \E a \in agent_set : \E b \in agent_set \ {a} :
          /\ ~HasEdge(G, a, b)
          /\ agents[a].commitment > 0 /\ agents[b].commitment > 0

\* C15 (as claimed): the pending project queue is empty at construction and
\* empty when a step ends, whether the step returns or raises: once the
\* execution phase of a step has run, no queued pair is left for a later step
C15_QueueEmptyAtStepEnd ==
    /\ (pc \in {"ready", "error"} /\ steps = 0 /\ calls = 0) => successful_projects = <<>>
    /\ pc = "collect" => successful_projects = <<>>
    /\ (pc = "error" /\ steps > 0) => successful_projects = <<>>

\* q1 is an initial part of q2
IsPrefix(q1, q2) == Len(q1) <= Len(q2) /\ \A i \in 1 .. Len(q1) : q1[i] = q2[i]

\* C16 (as claimed): the records are append-only, and when a step returns
\* there is exactly one model-level record per step so far and the step's
\* agent-level records are those of the agents live at the end of the step
C16_OneSnapshotPerStep ==
    [][/\ IsPrefix(model_vars, model_vars')
       /\ IsPrefix(agent_records, agent_records')
       /\ (pc = "collect" /\ pc' = "ready") =>
             /\ Len(model_vars') = steps'
             /\ Len(agent_records') = steps'
             /\ DOMAIN Last(agent_records') = agent_set']_vars

\* C17 (as claimed): the constructor accepts an explicit seed: a call with a
\* valid configuration for at least one agent and a seed returns a model, the
\* start of the run that the seed is claimed to determine
C17_SeedAccepted ==
    (pc # "new" /\ steps = 0 /\ calls = 0
        /\ cfg.seed # NotPassed /\ cfg.resource_node_introduction_step = NotPassed
        /\ ValidConfig(cfg) /\ Population(cfg.num_agents_per_type) > 0) =>
        pc = "ready" /\ err = ""

\* what a forum with attendees A makes of the pair u, v of graph g1 in graph g2
ForumPair(g1, g2, A, u, v) ==
    IF u \in A /\ v \in A
      THEN /\ HasEdge(g2, u, v)
           /\ Strength(g2, u, v) =
                 IF HasEdge(g1, u, v) THEN Min(One, Strength(g1, u, v) + ForumBoost)
                 ELSE ForumStrength
      ELSE /\ HasEdge(g2, u, v) = HasEdge(g1, u, v)
           /\ HasEdge(g1, u, v) => Strength(g2, u, v) = Strength(g1, u, v)

\* C18: a forum phase either leaves the graph as it is or has a set of
\* attendees that holds the catalyst: every pair of distinct attendees ends
\* with an edge, of strength min(1.0, old + 0.1) if it had one and 0.1 if not;
\* every pair with a non-attending endpoint keeps its edge and strength or its
\* lack of an edge; no agent's attributes change
C18_ForumEffect ==
    [][pc = "forum" =>
          /\ agents' = agents
          /\ Nodes(G') = Nodes(G)
          /\ \/ G' = G
             \/ /\ CatalystAgent # NoAgent
                /\ \E A \in SUBSET agent_set :
                      /\ CatalystAgent \in A
                      /\ \A u \in Nodes(G) : \A v \in Nodes(G) \ {u} :
                            ForumPair(G, G', A, u, v)]_vars

\* C18 witness: the forum of the first step has raised a clique edge between
\* two attendees from 0.7 to 0.8 and left the clique edge of an agent that did
\* not attend at 0.7
C18_Witness ==
    /\ pc = "decay"
    /\ steps = 1
    /\ calls = 0
    /\ BondingStrength + ForumBoost \in AllStrengths(G)
    /\ BondingStrength \in AllStrengths(G)

\* the number of queued pairs of q in which agent a appears
Appearances(q, a) ==
    Cardinality({i \in 1 .. Len(q) : q[i][1] = a})
        + Cardinality({i \in 1 .. Len(q) : q[i][2] = a})

\* the number of queued pairs of q on the edge between u and v
Occurrences(q, u, v) ==
    Cardinality({i \in 1 .. Len(q) : {q[i][1], q[i][2]} = {u, v}})

\* C19 (as claimed): the execution phase processes every queued pair: each
\* agent's resources grow by 10 per queued pair it appears in, whatever the
\* threshold, and each edge's strength becomes min(1.0, old + 0.2) once per
\* queued pair on it
C19_EveryQueuedPairExecuted ==
    [][pc = "execute" =>
          /\ \A a \in DOMAIN agents :
                agents'[a].resources =
                   agents[a].resources
                      + ProjectReward * Appearances(successful_projects, a)
          /\ \A u \in Nodes(G) : \A v \in Neighbors(G, u) :
                /\ HasEdge(G', u, v)
                /\ Strength(G', u, v) =
                      Min(One, Strength(G, u, v)
                                 + ProjectBoost * Occurrences(successful_projects, u, v))]_vars

\* C20: a call of GovernanceAgent.step changes no agent's attributes and no
\* existing edge, and leaves the queue as it is or appends one pair
\* (self, partner) to it; it appends only when partner is a neighbour of self,
\* their edge is stronger than 0.6 and their summed resources exceed the
\* project threshold (so an agent without neighbours appends nothing)
C20_ProposeAppendsQualifiedPair ==
    [][(pc = "ready" /\ calls' = calls + 1) =>
          /\ agents' = agents
          /\ \A u \in Nodes(G) : \A v \in Neighbors(G, u) :
                HasEdge(G', u, v) /\ Strength(G', u, v) = Strength(G, u, v)
          /\ IsPrefix(successful_projects, successful_projects')
          /\ Len(successful_projects') <= Len(successful_projects) + 1
          /\ Len(successful_projects') = Len(successful_projects) + 1 =>
                LET self == Last(successful_projects')[1]
                    partner == Last(successful_projects')[2]
                IN  /\ self \in agent_set
                    /\ partner \in Neighbors(G', self)
                    /\ HasEdge(G, self, partner)
                    /\ Strength(G', self, partner) > ProjectStrength
                    /\ agents[self].resources + agents[partner].resources
                          > cfg.project_resource_threshold]_vars

\* C20 witness: two calls have each appended a pair, and the agent of the last
\* pair also has a neighbour whose edge is too weak for a project
C20_Witness ==
    /\ pc = "ready"
    /\ Len(successful_projects) = 2
    /\ LET self == Last(successful_projects)[1]
       IN  \E b \in Neighbors(G, self) : Strength(G, self, b) <= ProjectStrength

\* C21: a call of GovernanceAgent.step on agent a changes no agent's
\* attributes, keeps every existing edge and its strength, and adds at most one
\* edge: between a and another agent of the population that a had no edge
\* with, of strength 0.05; when a has an edge with every other agent of the
\* population the graph is left as it is
C21_AttemptAddsOneWeakEdge ==
    [][(pc = "ready" /\ calls' = calls + 1) =>
          LET a == acting'
          IN  /\ a \in agent_set
              /\ agents' = agents
              /\ Nodes(G') = Nodes(G)
              /\ \A u \in Nodes(G) : \A v \in Neighbors(G, u) :
                    HasEdge(G', u, v) /\ Strength(G', u, v) = Strength(G, u, v)
              /\ Cardinality(NewEdges(G, G')) <= 1
              /\ \A e \in NewEdges(G, G') :
                    \E b \in agent_set \ {a} :
                       /\ e = {a, b}
                       /\ ~HasEdge(G, a, b)
                       /\ Strength(G', a, b) = NewLinkStrength
                       /\ Strength(G', b, a) = NewLinkStrength
              /\ (\A b \in agent_set \ {a} : HasEdge(G, a, b)) => G' = G]_vars

\* C21 witness: before the first step, the agent that acted last has a clique
\* edge at 0.7 beside the 0.05 edge a call has added
C21_Witness ==
    /\ pc = "ready"
    /\ steps = 0
    /\ acting # NoAgent
    /\ \E b \in Neighbors(G, acting) : Strength(G, acting, b) = NewLinkStrength
    /\ \E c \in Neighbors(G, acting) : Strength(G, acting, c) = BondingStrength

\* the number of times phase p is in the phases of the current step
PhaseCount(p) == Cardinality({i \in 1 .. Len(phases) : phases[i] = p})

\* C22: the decay phase keeps the nodes and the edge set and turns the
\* strength s of every edge into s * (1 - link_decay_rate), once; and every step
\* has run the decay phase exactly once by the time it executes the queue,
\* returns or raises, whatever the forum and the agents did
C22_DecayOncePerStep ==
    [][/\ pc = "decay" =>
             /\ Nodes(G') = Nodes(G)
             /\ Edges(G') = Edges(G)
             /\ \A u \in Nodes(G) : \A v \in Neighbors(G, u) :
                   Strength(G', u, v) =
                      (Strength(G, u, v) * (One - cfg.link_decay_rate)) \div One
             /\ PhaseCount("decay")' = PhaseCount("decay") + 1
       /\ pc # "decay" => PhaseCount("decay")' <= PhaseCount("decay")
       /\ (steps' > 0 /\ pc' \in {"events", "forum", "decay"}) => PhaseCount("decay")' = 0
       /\ (steps' > 0 /\ pc' \in {"execute", "collect", "ready", "error"}) =>
             PhaseCount("decay")' = 1]_vars

\* C22 witness: a step in which no forum can convene and before which no agent
\* acted has halved a clique edge in its decay phase
C22_Witness ==
    /\ pc = "execute"
    /\ cfg.forum_frequency = 0
    /\ calls = 0
    /\ cfg.link_decay_rate = Half
    /\ BondingStrength \div 2 \in AllStrengths(G)

\* C23 (as claimed): the nodes of the graph are the ids of the agents of the
\* population, each node holds the agent with its id, every edge joins two
\* nodes, and when the queue is executed every queued pair names two nodes
C23_GraphMatchesPopulation ==
    /\ Nodes(G) = agent_set
    /\ \A u \in Nodes(G) : G.node[u] = u
    /\ \A u \in DOMAIN G.adj : u \in Nodes(G) /\ Neighbors(G, u) \subseteq Nodes(G)
    /\ pc = "execute" =>
          \A i \in 1 .. Len(successful_projects) :
             /\ successful_projects[i][1] \in Nodes(G)
             /\ successful_projects[i][2] \in Nodes(G)

\* the edges of graph g at node b
IncidentEdges(g, b) == {e \in Edges(g) : b \in e}

\* C24: no transition of a run takes an edge out of the graph, except the
\* broker removal, which takes out exactly the broker's edges; the decay phase
\* keeps the edge set whatever the rate; and no agent's resources ever decrease
\* or are negative
C24_EdgesAndResourcesKept ==
    [][/\ \/ Edges(G) \subseteq Edges(G')
          \/ /\ pc = "events" /\ RemovalDue /\ EmuAgent # NoAgent
             /\ Edges(G) \ Edges(G') = IncidentEdges(G, EmuAgent)
       /\ pc = "decay" => Edges(G') = Edges(G)
       /\ \A a \in DOMAIN agents' : agents'[a].resources >= 0
       /\ \A a \in DOMAIN agents :
             a \in DOMAIN agents' /\ agents'[a].resources >= agents[a].resources]_vars

\* C24 witness: two steps with a positive decay rate have returned, the first
\* of which removed the broker, a project has been executed and the graph
\* still has an edge
C24_Witness ==
    /\ pc = "ready"
    /\ steps = 2
    /\ cfg.link_decay_rate > 0
    /\ removed # NoAgent
    /\ cfg.midpoint_removal_step = 1
    /\ executed >= 1
    /\ Edges(G) # {}

====
